---- MODULE Spec2Model ----
(***************************************************************************)
(* JawiAI backend: the Knowledge Compiler (backend/ingest.py) and the      *)
(* Retrieval Orchestrator (backend/app.py).                                *)
(*                                                                         *)
(* Text is modelled as a sequence of one-character strings, so that        *)
(* lower(), strip(), split('.') and replace() are computed character by    *)
(* character, as Python computes them.  The embedding function, the FAISS  *)
(* index search and the LLM endpoint are external: their results are       *)
(* drawn nondeterministically from small sets.  The compiler and the       *)
(* server are separate processes that share the two artifact files; the    *)
(* server handles one request at a time, which loses nothing since the     *)
(* handlers share only state that is read-only after startup.              *)
(***************************************************************************)
EXTENDS Integers, Sequences, FiniteSets, TLC

VARIABLES
    knowledge_base,   \* ingest.py: contents of jawi_knowledge.json read by the current run
    ing_pc,           \* ingest.py: position of the compiler process
    ing_documents,    \* ingest.py: the `documents` list of the current run
    runs,             \* number of compiler runs started so far (also the run's generation tag)
    disk_index,       \* file jawi_index.faiss: [gen, ntotal]
    disk_documents,   \* file documents.json:   [gen, docs]
    app_pc,           \* app.py: position of the server process
    jawi_index,       \* app.py: loaded FAISS index [gen, ntotal]
    documents,        \* app.py: loaded document list [gen, docs]
    document_lookup,  \* app.py: dict name -> document
    req_pc,           \* position of the request handler ("idle", "awaiting")
    request,          \* the JSON body and endpoint of the request being (or last) handled
    search_query,     \* chat(): the search term, None before it is chosen
    nn,               \* what the index answers for the search term: [dist, id]
    retrieved_context,\* chat(): the document retrieved, None if none
    tier,             \* chat(): the branch of the retrieval logic that was taken
    encode_calls,     \* number of retriever_model.encode calls made for this request
    search_calls,     \* number of jawi_index.search calls made for this request
    payload,          \* the payload posted to the LLM endpoint, NoPayload if nothing was posted
    generation_calls, \* number of requests.post calls made for this request
    delegate,         \* how the last requests.post round trip ended
    response          \* the HTTP response of the handler, NoResponse while it is running

ingVars == <<knowledge_base, ing_pc, ing_documents, runs, disk_index, disk_documents>>
appVars == <<app_pc, jawi_index, documents, document_lookup>>
reqVars == <<req_pc, request, search_query, nn, retrieved_context, tier, encode_calls,
             search_calls, payload, generation_calls, delegate, response>>
vars == <<ingVars, appVars, reqVars>>

----------------------------------------------------------------------------
(* Bounds *)

\* Compiler runs started after the compilation whose artifacts are on disk initially.
MaxRuns == 1

----------------------------------------------------------------------------
(* Python values *)

\* Python's None, kept distinct from every text (a text is a sequence of
\* one-character strings).
None == <<"None">>

\* bool(v) for v a text, a list or None.
Truthy(v) == v # None /\ v # <<>>

\* dict.get(k, default)
Get(d, k, default) == IF k \in DOMAIN d THEN d[k] ELSE default

Upper == <<"A", "B", "C", "D", "E", "F", "G", "H", "I", "J", "K", "L", "M",
           "N", "O", "P", "Q", "R", "S", "T", "U", "V", "W", "X", "Y", "Z">>
Lowercase == <<"a", "b", "c", "d", "e", "f", "g", "h", "i", "j", "k", "l", "m",
               "n", "o", "p", "q", "r", "s", "t", "u", "v", "w", "x", "y", "z">>

Whitespace == {" ", "\t", "\n", "\r"}

LowerChar(c) ==
    IF \E i \in 1..26 : Upper[i] = c
    THEN Lowercase[CHOOSE i \in 1..26 : Upper[i] = c]
    ELSE c

\* str.lower()
Lower(s) == [i \in 1..Len(s) |-> LowerChar(s[i])]

RECURSIVE LStrip(_)
LStrip(s) ==
    IF s = <<>> THEN s
    ELSE IF Head(s) \in Whitespace THEN LStrip(Tail(s)) ELSE s

RECURSIVE RStrip(_)
RStrip(s) ==
    IF s = <<>> THEN s
    ELSE IF s[Len(s)] \in Whitespace THEN RStrip(SubSeq(s, 1, Len(s) - 1)) ELSE s

\* str.strip()
Strip(s) == RStrip(LStrip(s))

\* str.startswith(p)
StartsWith(s, p) == Len(s) >= Len(p) /\ SubSeq(s, 1, Len(p)) = p

\* str.split(c)[0]: the text before the first occurrence of the character c.
RECURSIVE SplitFirst(_, _)
SplitFirst(s, c) ==
    IF s = <<>> THEN <<>>
    ELSE IF Head(s) = c THEN <<>>
    ELSE <<Head(s)>> \o SplitFirst(Tail(s), c)

\* str.replace(old, ""): every non-overlapping occurrence removed, left to right.
RECURSIVE RemoveAll(_, _)
RemoveAll(s, old) ==
    IF s = <<>> THEN <<>>
    ELSE IF StartsWith(s, old) THEN RemoveAll(SubSeq(s, Len(old) + 1, Len(s)), old)
    ELSE <<Head(s)>> \o RemoveAll(Tail(s), old)

----------------------------------------------------------------------------
(* Literals of the two scripts *)

TopicPrefix == <<"T", "o", "p", "i", "c", ":", " ">>
TopicMid == <<".", " ", "E", "x", "p", "l", "a", "n", "a", "t", "i", "o", "n", ":", " ">>
LetterPrefix == <<"L", "e", "t", "t", "e", "r", " ", "n", "a", "m", "e", ":", " ">>
LetterStart == <<"L", "e", "t", "t", "e", "r", " ", "n", "a", "m", "e", ":">>
LetterCharacter == <<".", " ", "J", "a", "w", "i", " ", "c", "h", "a", "r", "a", "c", "t", "e", "r", " ", "f", "o", "r", "m", ":", " ">>
LetterInfo == <<".", " ", "I", "n", "f", "o", ":", " ">>
LetterLatin == <<" ", "E", "x", "a", "m", "p", "l", "e", " ", "w", "o", "r", "d", " ", "i", "n", " ", "L", "a", "t", "i", "n", " ", "i", "s", " ", "'">>
LetterJawi == <<"'", " ", "a", "n", "d", " ", "i", "n", " ", "J", "a", "w", "i", " ", "i", "s", " ", "'">>
LetterEnd == <<"'", ".">>

----------------------------------------------------------------------------
(* Knowledge Compiler: ingest.py *)

\* item.get('type') == t
HasType(item, t) == "type" \in DOMAIN item /\ item["type"] = t

\* The documents one record appends: one text, none if the type is not
\* recognised; ok is FALSE when a subscript item['k'] raises KeyError.
Flatten(item) ==
    IF HasType(item, "general_topic") THEN
        IF {"topic", "content"} \subseteq DOMAIN item
        THEN [ok |-> TRUE,
              docs |-> <<TopicPrefix \o item["topic"] \o TopicMid \o item["content"]>>]
        ELSE [ok |-> FALSE, docs |-> <<>>]
    ELSE IF HasType(item, "letter") THEN
        IF {"name", "info"} \subseteq DOMAIN item
        THEN [ok |-> TRUE,
              docs |-> <<LetterPrefix \o item["name"]
                         \o LetterCharacter \o Get(item, "character", <<>>)
                         \o LetterInfo \o item["info"]
                         \o LetterLatin \o Get(item, "latin_example", <<>>)
                         \o LetterJawi \o Get(item, "jawi_example", <<>>)
                         \o LetterEnd>>]
        ELSE [ok |-> FALSE, docs |-> <<>>]
    ELSE [ok |-> TRUE, docs |-> <<>>]

\* The loop over knowledge_base, started with the documents list docs: the
\* final list, or ok = FALSE at the first record that raises.
RECURSIVE FlattenLoop(_, _)
FlattenLoop(kb, docs) ==
    IF kb = <<>> THEN [ok |-> TRUE, docs |-> docs]
    ELSE IF ~Flatten(Head(kb)).ok THEN [ok |-> FALSE, docs |-> docs]
    ELSE FlattenLoop(Tail(kb), docs \o Flatten(Head(kb)).docs)

\* Records of jawi_knowledge.json used as inputs.
LetterCa == [type |-> "letter", name |-> <<"C", "a">>, info |-> <<"i">>,
             character |-> <<"c">>]
LetterCaAgain == [type |-> "letter", name |-> <<"c", "a", " ">>, info |-> <<"j">>]
LetterDotted == [type |-> "letter", name |-> <<"b", ".", "x">>, info |-> <<"k">>,
                 latin_example |-> <<"l">>, jawi_example |-> <<"m">>]
LetterNested == [type |-> "letter", name |-> LetterPrefix \o <<"b">>, info |-> <<"n">>]
TopicT == [type |-> "general_topic", topic |-> <<"t">>, content |-> <<"c">>]
LetterNoName == [type |-> "letter", info |-> <<"i">>]
LetterNoInfo == [type |-> "letter", name |-> <<"d">>]
TopicNoContent == [type |-> "general_topic", topic |-> <<"t">>]
TopicNoTopic == [type |-> "general_topic", content |-> <<"c">>]
UnknownType == [type |-> "word", name |-> <<"w">>]
NoType == [name |-> <<"C", "a">>, info |-> <<"i">>]

\* Contents of jawi_knowledge.json used as inputs.
KnowledgeBases ==
    { <<LetterCa, TopicT>>,
      <<LetterDotted, NoType, LetterCa, UnknownType, LetterCaAgain>>,
      <<LetterNested>>,
      <<TopicT, LetterNoName, LetterCa>>,
      <<LetterNoInfo, TopicNoTopic>>,
      <<TopicNoContent>>,
      <<UnknownType>> }

\* The knowledge base whose compilation is on disk initially.
InitialKnowledgeBase == <<LetterCa, TopicT>>

\* Lines 17-39: read jawi_knowledge.json and format every record.  A KeyError
\* ends the process before anything is written.
IngestRead(kb) ==
    /\ ing_pc \in {"idle", "done", "crashed", "killed"}
    /\ runs < MaxRuns
    /\ runs' = runs + 1
    /\ knowledge_base' = kb
    /\ \E r \in {FlattenLoop(kb, <<>>)} :
          /\ ing_documents' = r.docs
          /\ ing_pc' = IF r.ok THEN "flattened" ELSE "crashed"
    /\ UNCHANGED <<disk_index, disk_documents, appVars, reqVars>>

\* Lines 45-59: embed the documents, build the IndexFlatL2 (one vector per
\* document, in order) and write jawi_index.faiss.  With no documents the
\* embeddings array has one dimension and embeddings.shape[1] raises.
IngestBuildIndex ==
    /\ ing_pc = "flattened"
    /\ IF ing_documents = <<>>
       THEN /\ ing_pc' = "crashed"
            /\ UNCHANGED disk_index
       ELSE /\ ing_pc' = "index_written"
            /\ disk_index' = [gen |-> runs, ntotal |-> Len(ing_documents)]
    /\ UNCHANGED <<knowledge_base, ing_documents, runs, disk_documents, appVars, reqVars>>

\* Lines 65-66: write documents.json.
IngestSaveDocuments ==
    /\ ing_pc = "index_written"
    /\ disk_documents' = [gen |-> runs, docs |-> ing_documents]
    /\ ing_pc' = "done"
    /\ UNCHANGED <<knowledge_base, ing_documents, runs, disk_index, appVars, reqVars>>

\* The compiler process is stopped from outside (signal, power loss) between
\* its two writes; what it has written stays on disk.  (Stopped anywhere else,
\* it leaves the disk as a crashed or a finished run does.)
IngestInterrupted ==
    /\ ing_pc = "index_written"
    /\ ing_pc' = "killed"
    /\ UNCHANGED <<knowledge_base, ing_documents, runs, disk_index, disk_documents,
                   appVars, reqVars>>

----------------------------------------------------------------------------
(* Retrieval Orchestrator: app.py, startup *)

RELEVANCE_THRESHOLD == 1

\* Line 50: the name a "Letter name:" document is filed under.
LetterName(doc) == Lower(Strip(RemoveAll(SplitFirst(doc, "."), LetterPrefix)))

\* document_lookup[name] = doc
DictSetDefault(d, k, v) == [x \in DOMAIN d \cup {k} |-> IF x \in DOMAIN d THEN d[x] ELSE v]
DictSet(d, k, v) == [x \in DOMAIN d \cup {k} |-> IF x = k THEN v ELSE d[x]]

\* Lines 45-53: the loop that fills document_lookup, started with lookup.
RECURSIVE BuildLookup(_, _)
BuildLookup(docs, lookup) ==
    IF docs = <<>> THEN lookup
    ELSE IF StartsWith(Head(docs), LetterStart)
         THEN BuildLookup(Tail(docs), DictSet(lookup, LetterName(Head(docs)), Head(docs)))
         ELSE BuildLookup(Tail(docs), lookup)

EmptyDict == [x \in {} |-> <<>>]

\* Line 38: faiss.read_index('jawi_index.faiss').
AppLoadIndex ==
    /\ app_pc = "down"
    /\ jawi_index' = disk_index
    /\ app_pc' = "index_loaded"
    /\ UNCHANGED <<documents, document_lookup, ingVars, reqVars>>

\* Lines 40-56: json.load of documents.json, then the lookup dictionary; the
\* server then accepts requests.
AppLoadDocuments ==
    /\ app_pc = "index_loaded"
    /\ documents' = disk_documents
    /\ document_lookup' = BuildLookup(disk_documents.docs, EmptyDict)
    /\ app_pc' = "serving"
    /\ UNCHANGED <<jawi_index, ingVars, reqVars>>

----------------------------------------------------------------------------
(* Retrieval Orchestrator: app.py, request handlers *)

ContextOpen == <<"C", "o", "n", "t", "e", "x", "t", ":", "\n", "-", "-", "-", "\n">>
ContextClose == <<"\n", "-", "-", "-", "\n", "\n", "Q", "u", "e", "s", "t", "i", "o", "n", ":", " ">>
ContextLabel == <<"C", "o", "n", "t", "e", "x", "t", ":">>
CreativeOpen ==
    <<"\n", " ", " ", " ", " ", "Y", "o", "u", " ", "a", "r", "e", " ", "a", " ", "c", "r",
      "e", "a", "t", "i", "v", "e", " ", "J", "a", "w", "i", " ", "l", "a", "n", "g", "u",
      "a", "g", "e", " ", "t", "e", "a", "c", "h", "e", "r", ".", " ", "F", "u", "l", "f",
      "i", "l", "l", " ", "t", "h", "e", " ", "u", "s", "e", "r", "'", "s", " ", "r", "e",
      "q", "u", "e", "s", "t", " ", "c", "r", "e", "a", "t", "i", "v", "e", "l", "y", ".",
      " ", "I", "n", "c", "l", "u", "d", "e", " ", "b", "o", "t", "h", " ", "L", "a", "t",
      "i", "n", " ", "a", "n", "d", " ", "J", "a", "w", "i", " ", "s", "c", "r", "i", "p",
      "t", " ", "w", "h", "e", "n", "e", "v", "e", "r", " ", "p", "o", "s", "s", "i", "b",
      "l", "e", ".", "\n", " ", " ", " ", " ", "R", "e", "q", "u", "e", "s", "t", ":", " ",
      "\"">>
CreativeClose ==
    <<"\"", "\n", " ", " ", " ", " ", "Y", "o", "u", "r", " ", "C", "r", "e", "a", "t",
      "i", "v", "e", " ", "A", "n", "s", "w", "e", "r", ":", "\n", " ", " ", " ", " ">>

\* The two system prompts are fixed texts no code inspects: each is kept as one symbol.
GroundedSystemPrompt == <<"You are JawiAI, an intelligent and precise AI assistant for the Jawi Script. [rules 1-5]">>
GuardedSystemPrompt == <<"You are JawiAI, an assistant that ONLY discusses the Jawi script. [clarify]">>

NoPayload == [messages |-> <<>>]
NoResponse == [status |-> 0]
NoAnswer == [dist |-> -1, id |-> -1]

\* Line 79: not user_query
QueryMissingOnlyIfNone(user_query) == user_query = None
QueryMissing(user_query) == ~Truthy(user_query)

\* Line 86: the search term.
SearchTermIgnoringHint(user_query, initial_context) == user_query
SearchTerm(user_query, initial_context) ==
    IF Truthy(initial_context) THEN initial_context ELSE user_query

\* Line 90: search_query.lower().strip()
NormalizeQueryKeepingCase(s) == Strip(s)
NormalizeQuery(s) == Strip(Lower(s))

\* Line 107: the relevance test on the nearest neighbour's L2 distance.
RelevantAtOrAbove(dist) == dist >= RELEVANCE_THRESHOLD
Relevant(dist) == dist <= RELEVANCE_THRESHOLD

\* list[i] for a Python list of n elements: valid for -n <= i < n.
PyIndexOK(i, n) == -n <= i /\ i < n
PyItem(list, i) == IF i >= 0 THEN list[i + 1] ELSE list[Len(list) + i + 1]

\* Lines 91-111: the retrieval logic, given what the index answers for the
\* search term.  raised is TRUE when documents[indices[0][0]] raises IndexError.
Retrieve(term, answer) ==
    IF NormalizeQuery(term) \in DOMAIN document_lookup
    THEN [tier |-> "ExactMatch", context |-> document_lookup[NormalizeQuery(term)],
          encode_calls |-> 0, search_calls |-> 0, raised |-> FALSE]
    ELSE IF Relevant(answer.dist)
         THEN IF PyIndexOK(answer.id, Len(documents.docs))
              THEN [tier |-> "SemanticMatch", context |-> PyItem(documents.docs, answer.id),
                    encode_calls |-> 1, search_calls |-> 1, raised |-> FALSE]
              ELSE [tier |-> "IndexError", context |-> None,
                    encode_calls |-> 1, search_calls |-> 1, raised |-> TRUE]
         ELSE [tier |-> "NoMatch", context |-> None,
               encode_calls |-> 1, search_calls |-> 1, raised |-> FALSE]

\* Lines 119-141: factual mode.
GroundedPayload(context, chat_history, user_query) ==
    [model |-> "vllm-qwen3",
     messages |-> <<[role |-> "system", content |-> GroundedSystemPrompt]>>
                  \o chat_history
                  \o <<[role |-> "user",
                        content |-> ContextOpen \o context \o ContextClose \o user_query]>>,
     max_tokens |-> 300,
     temperature |-> "0.5"]

\* Lines 147-159: guarded generative mode.
FallbackPayload(chat_history, user_query) ==
    [model |-> "vllm-qwen3",
     messages |-> <<[role |-> "system", content |-> GuardedSystemPrompt]>>
                  \o chat_history
                  \o <<[role |-> "user", content |-> user_query]>>,
     max_tokens |-> 1024,
     temperature |-> "0.7"]

\* Lines 115-159: the payload for what was retrieved.
ChatPayload(context, chat_history, user_query) ==
    IF Truthy(context)
    THEN GroundedPayload(context, chat_history, user_query)
    ELSE FallbackPayload(chat_history, user_query)

\* Lines 190-203: creative mode.
CreativePayload(user_query) ==
    [model |-> "vllm-qwen3",
     messages |-> <<[role |-> "user",
                     content |-> CreativeOpen \o user_query \o CreativeClose]>>,
     max_tokens |-> 150,
     temperature |-> "0.8"]

QueryNotFound == [status |-> 400, body |-> [error |-> <<"Query not found">>]]

\* What Flask answers when the view function raises.
InternalServerError == [status |-> 500, body |-> [html |-> <<"Internal Server Error">>]]

\* Ways the requests.post round trip ends.
DelegateResults == {"ok", "timeout", "http_error", "bad_shape"}

\* The content of choices[0].message when the round trip succeeds.
GeneratedText == <<" ", "H", "i", "\n">>

\* str(e) for the exception each failure raises.
ErrorText(result) == <<result>>

\* Lines 162-176 and 195-211: the try block after requests.post has returned or raised.
LLMResponseWithDefault(result) ==
    IF result = "ok"
    THEN [status |-> 200, body |-> [response |-> Strip(GeneratedText)]]
    ELSE [status |-> 200, body |-> [response |-> <<"Sorry, please try again.">>]]
LLMResponse(result) ==
    IF result = "ok"
    THEN [status |-> 200, body |-> [response |-> Strip(GeneratedText)]]
    ELSE [status |-> 500, body |-> [error |-> ErrorText(result)]]

\* What the index answers to a search with k=1: a distance and the position
\* of one of its ntotal vectors.
Distances == {0, 1, 2}
Answers == [dist : Distances, id : 0..(jawi_index.ntotal - 1)]

\* JSON bodies of /chat requests used as inputs.
History == <<[role |-> "user", content |-> <<"h">>],
             [role |-> "assistant", content |-> <<"H">>]>>
ChatBodies ==
    { EmptyDict,
      [query |-> <<>>, context |-> <<"c", "a">>],
      [query |-> <<" ">>],
      [query |-> <<" ", "C", "A", "\n">>],
      [query |-> <<"z">>, context |-> <<" ", "c", "A">>, history |-> History],
      [query |-> <<"z">>, context |-> <<>>],
      [query |-> <<"C", "a">>, context |-> <<"y">>, history |-> History],
      [query |-> <<"z">>, history |-> History] }
CreativeBodies == { EmptyDict, [query |-> <<>>], [query |-> <<"z">>] }

\* Lines 71-165 of chat(): from the request to the requests.post call.
Chat(data, answer) ==
    /\ app_pc = "serving"
    /\ req_pc = "idle"
    /\ request' = [endpoint |-> "/chat", data |-> data]
    /\ delegate' = "none"
    /\ LET user_query == Get(data, "query", None)
           chat_history == Get(data, "history", <<>>)
           initial_context == Get(data, "context", None)
       IN IF QueryMissing(user_query)
          THEN /\ response' = QueryNotFound
               /\ req_pc' = "idle"
               /\ search_query' = None
               /\ nn' = NoAnswer
               /\ retrieved_context' = None
               /\ tier' = "none"
               /\ encode_calls' = 0
               /\ search_calls' = 0
               /\ payload' = NoPayload
               /\ generation_calls' = 0
          ELSE \E term \in {SearchTerm(user_query, initial_context)} :
               \E r \in {Retrieve(term, answer)} :
                  /\ search_query' = term
                  /\ nn' = answer
                  /\ retrieved_context' = r.context
                  /\ tier' = r.tier
                  /\ encode_calls' = r.encode_calls
                  /\ search_calls' = r.search_calls
                  /\ IF r.raised
                     THEN /\ response' = InternalServerError
                          /\ req_pc' = "idle"
                          /\ payload' = NoPayload
                          /\ generation_calls' = 0
                     ELSE /\ response' = NoResponse
                          /\ req_pc' = "awaiting"
                          /\ payload' = ChatPayload(r.context, chat_history, user_query)
                          /\ generation_calls' = 1
    /\ UNCHANGED <<ingVars, appVars>>

\* Lines 185-205 of chat_creative(): from the request to the requests.post call.
ChatCreative(data) ==
    /\ app_pc = "serving"
    /\ req_pc = "idle"
    /\ request' = [endpoint |-> "/chat-creative", data |-> data]
    /\ delegate' = "none"
    /\ search_query' = None
    /\ nn' = NoAnswer
    /\ retrieved_context' = None
    /\ tier' = "none"
    /\ encode_calls' = 0
    /\ search_calls' = 0
    /\ IF QueryMissing(Get(data, "query", None))
       THEN /\ response' = QueryNotFound
            /\ req_pc' = "idle"
            /\ payload' = NoPayload
            /\ generation_calls' = 0
       ELSE /\ response' = NoResponse
            /\ req_pc' = "awaiting"
            /\ payload' = CreativePayload(Get(data, "query", None))
            /\ generation_calls' = 1
    /\ UNCHANGED <<ingVars, appVars>>

\* Lines 165-176 and 205-211: requests.post returns or raises, and the
\* handler answers.  Nothing in either handler posts a second time.
GenerationReturns(result) ==
    /\ req_pc = "awaiting"
    /\ delegate' = result
    /\ response' = LLMResponse(result)
    /\ req_pc' = "idle"
    /\ UNCHANGED <<request, search_query, nn, retrieved_context, tier, encode_calls,
                   search_calls, payload, generation_calls, ingVars, appVars>>

----------------------------------------------------------------------------
(* The system *)

Init ==
    /\ knowledge_base = InitialKnowledgeBase
    /\ ing_pc = "idle"
    /\ ing_documents = <<>>
    /\ runs = 0
    /\ disk_index = [gen |-> 0, ntotal |-> Len(FlattenLoop(InitialKnowledgeBase, <<>>).docs)]
    /\ disk_documents = [gen |-> 0, docs |-> FlattenLoop(InitialKnowledgeBase, <<>>).docs]
    /\ app_pc = "down"
    /\ jawi_index = [gen |-> -1, ntotal |-> 0]
    /\ documents = [gen |-> -1, docs |-> <<>>]
    /\ document_lookup = EmptyDict
    /\ req_pc = "idle"
    /\ request = [endpoint |-> "none", data |-> EmptyDict]
    /\ search_query = None
    /\ nn = NoAnswer
    /\ retrieved_context = None
    /\ tier = "none"
    /\ encode_calls = 0
    /\ search_calls = 0
    /\ payload = NoPayload
    /\ generation_calls = 0
    /\ delegate = "none"
    /\ response = NoResponse

Next ==
    \/ \E kb \in KnowledgeBases : IngestRead(kb)
    \/ IngestBuildIndex
    \/ IngestSaveDocuments
    \/ IngestInterrupted
    \/ AppLoadIndex
    \/ AppLoadDocuments
    \/ \E data \in ChatBodies : \E answer \in Answers : Chat(data, answer)
    \/ \E data \in CreativeBodies : ChatCreative(data)
    \/ \E result \in DelegateResults : GenerationReturns(result)

Spec == Init /\ [][Next]_vars

----------------------------------------------------------------------------
(* Properties *)

\* old in s
Contains(s, old) ==
    \E i \in 1..(Len(s) - Len(old) + 1) : SubSeq(s, i, i + Len(old) - 1) = old

\* The fields of the request being (or last) handled.
ReqQuery == Get(request.data, "query", None)
ReqContext == Get(request.data, "context", None)
ReqHistory == Get(request.data, "history", <<>>)

\* A /chat request that passed validation: its search term has been chosen.
ChatSearched == request.endpoint = "/chat" /\ search_query # None

FinalTurn == payload.messages[Len(payload.messages)]

\* C1: when the search term of a /chat request, trimmed and lower-cased, is a
\* key of document_lookup, the request takes the exact-match tier with the
\* document stored under that key, and neither the embedding function nor the
\* index search is called for it.
C1_ExactMatchShortCircuits ==
    ChatSearched =>
        \A k \in DOMAIN document_lookup :
            Lower(Strip(search_query)) = k =>
                /\ tier = "ExactMatch"
                /\ retrieved_context = document_lookup[k]
                /\ encode_calls = 0
                /\ search_calls = 0

\* A key was asked for with other casing and padding, and the exact-match tier answered.
C1_Witness ==
    /\ ChatSearched
    /\ tier = "ExactMatch"
    /\ search_query \notin DOMAIN document_lookup
    /\ retrieved_context = document_lookup[<<"c", "a">>]

\* C2 as claimed: whenever the nearest-neighbour distance of the search term
\* exceeds RELEVANCE_THRESHOLD, the tier is NoMatch and the payload is the
\* guarded-fallback one.
C2_FarNeighbourIsNoMatch ==
    (ChatSearched /\ nn.dist > RELEVANCE_THRESHOLD) =>
        /\ tier = "NoMatch"
        /\ payload = FallbackPayload(ReqHistory, ReqQuery)

\* C2 as amended: whenever the normalized search term is not a key of
\* document_lookup and its nearest-neighbour distance exceeds
\* RELEVANCE_THRESHOLD, the tier is NoMatch and the payload posted is the
\* guarded system message, the history, then the raw query as the final turn,
\* with nothing added to it.
C2_FarNeighbourWithoutExactMatch ==
    (/\ ChatSearched
     /\ nn.dist > RELEVANCE_THRESHOLD
     /\ Lower(Strip(search_query)) \notin DOMAIN document_lookup) =>
        /\ tier = "NoMatch"
        /\ retrieved_context = None
        /\ Len(payload.messages) = Len(ReqHistory) + 2
        /\ payload.messages[1] = [role |-> "system", content |-> GuardedSystemPrompt]
        /\ SubSeq(payload.messages, 2, Len(payload.messages) - 1) = ReqHistory
        /\ FinalTurn = [role |-> "user", content |-> ReqQuery]
        /\ ~Contains(FinalTurn.content, ContextLabel)
        /\ \A i \in 1..Len(documents.docs) : ~Contains(FinalTurn.content, documents.docs[i])

\* The index was searched, the neighbour was too far, and the fallback payload was posted.
C2_Witness ==
    /\ ChatSearched
    /\ search_calls = 1
    /\ nn.dist > RELEVANCE_THRESHOLD
    /\ tier = "NoMatch"
    /\ generation_calls = 1
    /\ ReqHistory # <<>>

\* C3: for a /chat request with a non-empty context hint, the search term is
\* the hint, and the final turn of the payload posted carries the raw query:
\* after the context block in factual mode, alone in guarded mode.
C3_HintSearchesQueryIsForwarded ==
    (ChatSearched /\ Truthy(ReqContext)) =>
        /\ search_query = ReqContext
        /\ (tier = "ExactMatch" => retrieved_context = document_lookup[Lower(Strip(ReqContext))])
        /\ (generation_calls > 0 =>
               /\ FinalTurn.role = "user"
               /\ FinalTurn.content =
                     IF tier \in {"ExactMatch", "SemanticMatch"}
                     THEN ContextOpen \o retrieved_context \o ContextClose \o ReqQuery
                     ELSE ReqQuery)

\* A hint that differs from the query found a document, and the query was forwarded.
C3_Witness ==
    /\ ChatSearched
    /\ Truthy(ReqContext)
    /\ ReqContext # ReqQuery
    /\ tier = "ExactMatch"
    /\ generation_calls = 1
    /\ ~Contains(FinalTurn.content, ReqContext)

\* C4 as claimed: a /chat query that is empty once lower-cased and trimmed is
\* rejected with the validation error and reaches neither the lookup, nor the
\* search, nor the LLM endpoint.
C4_BlankQueryRejected ==
    (/\ request.endpoint = "/chat"
     /\ "query" \in DOMAIN request.data
     /\ Strip(Lower(request.data["query"])) = <<>>) =>
        /\ response = QueryNotFound
        /\ search_query = None
        /\ encode_calls = 0
        /\ search_calls = 0
        /\ generation_calls = 0

\* C4 as amended: a /chat query that is absent or is the empty text is
\* rejected with the validation error and reaches neither the lookup, nor the
\* search, nor the LLM endpoint.
C4_EmptyQueryRejected ==
    (/\ request.endpoint = "/chat"
     /\ ("query" \in DOMAIN request.data => request.data["query"] = <<>>)) =>
        /\ response.status = 400
        /\ response.body = [error |-> <<"Query not found">>]
        /\ search_query = None
        /\ tier = "none"
        /\ encode_calls = 0
        /\ search_calls = 0
        /\ generation_calls = 0
        /\ payload = NoPayload

\* An empty query came with a hint that is a key, and was rejected.
C4_Witness ==
    /\ request.endpoint = "/chat"
    /\ "query" \in DOMAIN request.data
    /\ request.data["query"] = <<>>
    /\ Lower(Strip(ReqContext)) \in DOMAIN document_lookup
    /\ response.status = 400

\* C5: every request causes no call of the LLM endpoint when its query is
\* absent or empty, and exactly one call otherwise.
C5_OneGenerationCallPerValidRequest ==
    request.endpoint \in {"/chat", "/chat-creative"} =>
        generation_calls = IF Truthy(ReqQuery) THEN 1 ELSE 0

\* C6: a round trip that fails ends the request with status 500 and a body
\* {error: message}, and leaves the index, the documents, the lookup
\* dictionary and the server's readiness as they were.
C6_DelegateFailureIsolated ==
    [][(req_pc = "awaiting" /\ req_pc' = "idle" /\ delegate' # "ok") =>
           /\ response'.status = 500
           /\ DOMAIN response'.body = {"error"}
           /\ response'.body["error"] = <<delegate'>>
           /\ generation_calls' = 1
           /\ UNCHANGED <<jawi_index, documents, document_lookup>>
           /\ app_pc' = "serving"]_vars

\* A round trip timed out and the request was answered with the error.
C6_Witness ==
    /\ delegate = "timeout"
    /\ req_pc = "idle"
    /\ response.status = 500
    /\ app_pc = "serving"

\* A record of a recognised type that lacks a field its template subscripts.
Incomplete(item) ==
    \/ HasType(item, "general_topic") /\ ~({"topic", "content"} \subseteq DOMAIN item)
    \/ HasType(item, "letter") /\ ~({"name", "info"} \subseteq DOMAIN item)

Recognised(item) == HasType(item, "general_topic") \/ HasType(item, "letter")

\* C7: a run over a knowledge base with an incomplete record does not stop at
\* it: every record of a recognised type yields a document.
C7_IncompleteRecordStillFlattened ==
    (/\ runs > 0
     /\ \E i \in 1..Len(knowledge_base) : Incomplete(knowledge_base[i])) =>
        /\ ing_pc # "crashed"
        /\ Len(ing_documents) =
               Cardinality({i \in 1..Len(knowledge_base) : Recognised(knowledge_base[i])})

\* C8: the server never serves with an index and a document list of different
\* sizes, and no search yields a position outside the document list.
C8_MismatchedArtifactsNeverServed ==
    /\ app_pc = "serving" => jawi_index.ntotal = Len(documents.docs)
    /\ tier # "IndexError"

\* C9: a server that has loaded the artifacts holds the index and the
\* documents of one and the same compilation.
C9_ArtifactsLoadedFromOneCompilation ==
    app_pc = "serving" => jawi_index.gen = documents.gen

\* The text between "Letter name: " and the first "." of a document.
NameSegment(doc) == SplitFirst(SubSeq(doc, Len(LetterPrefix) + 1, Len(doc)), ".")

\* The text before the first "." of a document, without any "Letter name: ",
\* trimmed and lower-cased.
SegmentKey(doc) == Strip(Lower(RemoveAll(SplitFirst(doc, "."), LetterPrefix)))

LetterDocs == {i \in 1..Len(documents.docs) : StartsWith(documents.docs[i], LetterPrefix)}

\* C10 as claimed: for every letter document D loaded, the name segment of D,
\* lower-cased and trimmed, is a key of document_lookup, and the document
\* stored under it is D.
C10_EveryLetterDocumentRoundTrips ==
    app_pc = "serving" =>
        \A i \in LetterDocs :
            /\ Lower(Strip(NameSegment(documents.docs[i]))) \in DOMAIN document_lookup
            /\ document_lookup[Lower(Strip(NameSegment(documents.docs[i])))] = documents.docs[i]

\* C10 as amended: for every letter document D loaded, the text before its
\* first ".", without any "Letter name: ", trimmed and lower-cased, is a key of
\* document_lookup; it is the name segment of D, lower-cased and trimmed,
\* unless that segment contains "Letter name: "; and the document stored under
\* it is the last letter document with that key, so D itself when no later
\* letter document has the same key.
C10_LastLetterDocumentRoundTrips ==
    app_pc = "serving" =>
        \A i \in LetterDocs :
            LET key == SegmentKey(documents.docs[i])
                same == {j \in LetterDocs : SegmentKey(documents.docs[j]) = key}
                last == CHOOSE j \in same : \A m \in same : m <= j
            IN /\ key \in DOMAIN document_lookup
               /\ document_lookup[key] = documents.docs[last]
               /\ (~Contains(NameSegment(documents.docs[i]), LetterPrefix)
                      => key = Lower(Strip(NameSegment(documents.docs[i]))))

\* Two letter documents with one key were loaded; the later one is stored.
C10_Witness ==
    /\ app_pc = "serving"
    /\ \E i, j \in LetterDocs :
          /\ i < j
          /\ SegmentKey(documents.docs[i]) = SegmentKey(documents.docs[j])
          /\ documents.docs[i] # documents.docs[j]
          /\ document_lookup[SegmentKey(documents.docs[j])] = documents.docs[j]

====
